---- MODULE Spec2Model ----
(***************************************************************************)
(* Model of the input-event contract of the Anbox Platform SDK            *)
(* (include/anbox-platform-sdk/input_processor.h).                        *)
(*                                                                        *)
(* The header declares the event record, the device-type enumeration and  *)
(* the two pure-virtual operations of anbox::InputProcessor together with *)
(* their documented contract (timeout table, return codes).  Those parts  *)
(* are translated from the header.  The header contains no implementation *)
(* of the operations; the queue behind read_event / inject_event is       *)
(* modelled from the specification document (an internal FIFO queue, one  *)
(* reader, one injector).                                                 *)
(***************************************************************************)
EXTENDS Integers, Sequences, FiniteSets

(* ----------------------------- bounds --------------------------------- *)

\* largest timeout magnitude tried: timeouts range over -MaxTimeout..MaxTimeout
MaxTimeout == 2

\* number of inject_event calls explored
MaxInject == 3

\* number of read_event calls explored
MaxReads == 4

(* ------------------- AnboxInputDeviceType (enum) ---------------------- *)

POINTER == 0

KEYBOARD == 1

TOUCHPANEL == 2

GAMEPAD == 3

AnboxInputDeviceType == {POINTER, KEYBOARD, TOUCHPANEL, GAMEPAD}

(* ------------------------ AnboxInputEvent ----------------------------- *)

\* uint16_t: values are kept modulo 2^16
UInt16(x) == x % 65536

\* int32_t fields (device_id, value) are kept as they are: the integers of
\* the model are 32-bit two's complement themselves

\* a narrowed record: the code field kept in 8 bits only
AnboxInputEventNarrow(dt, id, ty, co, va) ==
  [device_type |-> dt, device_id |-> id, type |-> UInt16(ty),
   code |-> co % 256, value |-> va]

\* struct AnboxInputEvent: the five fields with their declared widths
AnboxInputEvent(dt, id, ty, co, va) ==
  [device_type |-> dt, device_id |-> id, type |-> UInt16(ty),
   code |-> UInt16(co), value |-> va]

\* passing or assigning the struct by value copies the five fields
CopyEvent(e) ==
  AnboxInputEvent(e.device_type, e.device_id, e.type, e.code, e.value)

(* --------------------------- return codes ----------------------------- *)

OK == 0

EINVAL == 22

EIO == 5

\* "return -EIO immediately if no event to process"
NoDataError == 0 - EIO

(* --------------------------- timeout table ---------------------------- *)

\* | 0 | Non-blocking mode |: the row that is neither of the two below
BlockIndefinitelyOnlyMinusOne(t) == t = 0 - 1

\* | < 0 | Block indefinitely until an event is available |
BlockIndefinitely(t) == t < 0

WaitUpToIncludingZero(t) == t >= 0

\* | > 0 | Wait up to a maximum of timeout milliseconds |
WaitUpTo(t) == t > 0

ExpiredEarly(waited, t) == waited >= t - 1

\* the wait of a bounded read is over once timeout milliseconds have passed
Expired(waited, t) == waited >= t

(* -------------------------- internal queue ---------------------------- *)

EnqueueFront(q, e) == <<e>> \o q

\* inject_event: "an event to be pushed into the internal queue"
Enqueue(q, e) == Append(q, e)

NextAvailableNewest(q) == q[Len(q)]

\* read_event: "the next available input event"
NextAvailable(q) == Head(q)

\* what stays queued after the next available event was taken
Remaining(q) == Tail(q)

FailedOutputCleared(o) == <<>>

\* the caller's event slot after a read_event that returned an error
FailedOutput(o) == o

(* ------------------------------ inputs -------------------------------- *)

Timeouts == (0 - MaxTimeout)..MaxTimeout

\* how long a waiting read is observed (one tick = one millisecond)
MaxWaited == MaxTimeout + 1

\* events handed to inject_event; field values include the ends of the
\* 16-bit range and values outside the 16-bit range for the 32-bit fields
InputEvents ==
  { [device_type |-> KEYBOARD, device_id |-> 0, type |-> 1, code |-> 28,
     value |-> 1],
    [device_type |-> GAMEPAD, device_id |-> 1, type |-> 3, code |-> 65535,
     value |-> 0 - 70000],
    [device_type |-> TOUCHPANEL, device_id |-> 0 - 1, type |-> 65535,
     code |-> 300, value |-> 70000] }

(* ------------------------------ state --------------------------------- *)

VARIABLES
  queue,      \* the internal event queue
  rpc,        \* position of the reader: "idle" or "waiting" inside read_event
  rtimeout,   \* timeout argument of the current / last read_event call
  waited,     \* milliseconds the current / last read_event call has waited
  rblocked,   \* whether the current / last read_event call had to wait
  rret,       \* return value of the last completed read_event call
  out,        \* the caller's event slot: <<>> while unset, else <<event>>
  iret,       \* return value of the last inject_event call
  rcalls,     \* number of read_event calls made
  accepted,   \* history: events for which inject_event returned success
  delivered   \* history: events handed out by successful read_event calls

vars == <<queue, rpc, rtimeout, waited, rblocked, rret, out, iret, rcalls,
          accepted, delivered>>

Init ==
  /\ queue = <<>>
  /\ rpc = "idle"
  /\ rtimeout = 0
  /\ waited = 0
  /\ rblocked = FALSE
  /\ rret = OK
  /\ out = <<>>
  /\ iret = OK
  /\ rcalls = 0
  /\ accepted = <<>>
  /\ delivered = <<>>

(* --------------------------- read_event ------------------------------- *)

\* read_event hands out the next available event and returns success
Deliver ==
  /\ out' = <<CopyEvent(NextAvailable(queue))>>
  /\ queue' = Remaining(queue)
  /\ delivered' = Append(delivered, CopyEvent(NextAvailable(queue)))
  /\ rret' = OK
  /\ rpc' = "idle"

\* read_event returns the no-data error
Fail ==
  /\ out' = FailedOutput(out)
  /\ rret' = NoDataError
  /\ rpc' = "idle"
  /\ UNCHANGED <<queue, delivered>>

\* int read_event(AnboxInputEvent* event, int timeout): the call, up to its
\* return or up to the point where it starts waiting
read_event(t) ==
  /\ rpc = "idle"
  /\ rcalls < MaxReads
  /\ rcalls' = rcalls + 1
  /\ rtimeout' = t
  /\ waited' = 0
  /\ IF queue # <<>>
       THEN Deliver /\ rblocked' = FALSE
       ELSE IF BlockIndefinitely(t) \/ WaitUpTo(t)
         THEN /\ rpc' = "waiting"
              /\ rblocked' = TRUE
              /\ UNCHANGED <<queue, delivered, rret, out>>
         ELSE Fail /\ rblocked' = FALSE
  /\ UNCHANGED <<iret, accepted>>

\* a waiting read_event resumes because an event became available
ReadWake ==
  /\ rpc = "waiting"
  /\ queue # <<>>
  /\ Deliver
  /\ UNCHANGED <<rtimeout, waited, rblocked, iret, rcalls, accepted>>

\* a waiting read_event with a positive timeout gives up
ReadTimeout ==
  /\ rpc = "waiting"
  /\ queue = <<>>
  /\ ~BlockIndefinitely(rtimeout)
  /\ Expired(waited, rtimeout)
  /\ Fail
  /\ UNCHANGED <<rtimeout, waited, rblocked, iret, rcalls, accepted>>

\* one millisecond passes while read_event waits
Tick ==
  /\ rpc = "waiting"
  /\ waited < MaxWaited
  /\ waited' = waited + 1
  /\ UNCHANGED <<queue, rpc, rtimeout, rblocked, rret, out, iret, rcalls,
                 accepted, delivered>>

(* -------------------------- inject_event ------------------------------ *)

\* int inject_event(AnboxInputEvent event)
inject_event(e) ==
  /\ Len(accepted) < MaxInject
  /\ queue' = Enqueue(queue, CopyEvent(e))
  /\ accepted' = Append(accepted, e)
  /\ iret' = OK
  /\ UNCHANGED <<rpc, rtimeout, waited, rblocked, rret, out, rcalls, delivered>>

(* --------------------------- specification ---------------------------- *)

Next ==
  \/ \E t \in Timeouts : read_event(t)
  \/ ReadWake
  \/ ReadTimeout
  \/ Tick
  \/ \E e \in InputEvents : inject_event(e)

Spec == Init /\ [][Next]_vars

\* a waiting reader that can resume does resume, and time passes
ReaderStep == ReadWake \/ ReadTimeout

FairSpec == Spec /\ WF_vars(ReaderStep) /\ WF_vars(Tick)

TypeOK ==
  /\ rpc \in {"idle", "waiting"}
  /\ rtimeout \in Timeouts
  /\ waited \in 0..MaxWaited
  /\ rblocked \in BOOLEAN
  /\ rret \in {OK, NoDataError, EINVAL}
  /\ iret \in {OK, EINVAL}
  /\ rcalls \in 0..MaxReads
  /\ Len(out) <= 1
  /\ Len(accepted) <= MaxInject
  /\ \A i \in DOMAIN queue : queue[i].device_type \in AnboxInputDeviceType

(* ------------------------------ helpers ------------------------------- *)

Range(s) == {s[i] : i \in DOMAIN s}

Count(s, x) == Cardinality({i \in DOMAIN s : s[i] = x})

\* the step is a read_event call being made
ReadCalled == rcalls' = rcalls + 1

\* the step is a read_event call returning to its caller
ReadReturned == rpc' = "idle" /\ (ReadCalled \/ rpc = "waiting")

(* ------------------------------- claims ------------------------------- *)

\* C1: every event accepted by inject_event is handed out by exactly one
\* successful read_event or is still queued, never lost and never handed out
\* twice, and what is handed out equals the injected record in all five
\* fields: each record occurs in the accepted history exactly as often as in
\* the delivered history and the queue together.
C1_ExactlyOnceVerbatim ==
  \A e \in Range(accepted) \cup Range(delivered) \cup Range(queue) :
    Count(accepted, e) = Count(delivered, e) + Count(queue, e)

\* C1 witness: the same record was injected twice among three injections, and
\* all three were read back.
C1_Witness ==
  /\ Len(accepted) = 3
  /\ Len(delivered) = 3
  /\ queue = <<>>
  /\ accepted[1] = accepted[3]
  /\ accepted[1] # accepted[2]

\* C2: events are handed out in the order they were injected: the delivered
\* history is a prefix of the accepted history.
C2_Fifo ==
  /\ Len(delivered) <= Len(accepted)
  /\ \A i \in DOMAIN delivered : delivered[i] = accepted[i]

\* C2 witness: three injected events, each different from the one before it,
\* were read back by three successful reads.
C2_Witness ==
  /\ Len(delivered) = 3
  /\ delivered[2] # delivered[3]
  /\ delivered[1] # delivered[2]
  /\ rcalls = 3

\* C3: read_event with timeout 0 on an empty queue returns the no-data error
\* in the step of the call, never waits, leaves the event slot and the queue
\* alone, and the result of a returned call is not changed by anything but
\* the next call.
C3_PollEmpty ==
  [][ /\ (ReadCalled /\ rtimeout' = 0 /\ queue = <<>>) =>
          /\ rpc' = "idle"
          /\ rret' = NoDataError
          /\ out' = out
          /\ queue' = queue
          /\ rblocked' = FALSE
      /\ (rpc' = "waiting") => (rtimeout' # 0)
      /\ (rpc = "idle" /\ ~ReadCalled) => (rret' = rret /\ out' = out)
    ]_vars

\* C3 witness: a poll failed on the empty queue and an event was injected
\* afterwards; the poll's result still stands.
C3_Witness ==
  /\ rpc = "idle"
  /\ rcalls > 0
  /\ rtimeout = 0
  /\ rret = NoDataError
  /\ out = <<>>
  /\ queue # <<>>

\* C4: a read_event with a negative timeout returns only with success, in a
\* step where an event is queued, and with the oldest queued event in the
\* slot; while the queue is empty it keeps waiting through every tick.
C4_NeverTimesOut ==
  [][ /\ (ReadReturned /\ rtimeout' < 0) =>
          /\ rret' = OK
          /\ queue # <<>>
          /\ out' = <<Head(queue)>>
      /\ (rpc = "waiting" /\ rtimeout < 0 /\ queue = <<>>) =>
          /\ rpc' = "waiting"
          /\ rret' = rret
    ]_vars

\* C4 witness: a read with a timeout below -1 waited as long as the model
\* observes and then returned success.
C4_Witness ==
  /\ rpc = "idle"
  /\ rtimeout < 0 - 1
  /\ rblocked
  /\ waited = MaxWaited
  /\ rret = OK

\* C5: a waiting read_event with timeout T > 0 returns the no-data error only
\* when the queue is empty and at least T milliseconds have passed, returns
\* the oldest event with success as soon as one is queued, and does return.
C5_BoundedWait ==
  /\ [][ (rpc = "waiting" /\ rpc' = "idle" /\ rtimeout > 0) =>
           IF queue = <<>>
             THEN rret' = NoDataError /\ waited >= rtimeout
             ELSE rret' = OK /\ out' = <<Head(queue)>>
       ]_vars
  /\ ((rpc = "waiting" /\ rtimeout > 0) ~> (rpc = "idle"))

\* C5 witness: a read with the largest positive timeout gave up after exactly
\* that many milliseconds.
C5_Witness ==
  /\ rpc = "idle"
  /\ rtimeout = MaxTimeout
  /\ rblocked
  /\ waited = rtimeout
  /\ rret = NoDataError

\* C6: every call returns success (0) or the one error code EINVAL.
C6_SingleErrorCode ==
  /\ rret \in {OK, EINVAL}
  /\ iret \in {OK, EINVAL}

\* C8: a read_event call made while the queue is non-empty returns success in
\* the step of the call whatever the timeout is, with the oldest queued event
\* in the slot, and removes exactly that event.
C8_ReadNonEmpty ==
  [][ (ReadCalled /\ queue # <<>>) =>
        /\ rpc' = "idle"
        /\ rblocked' = FALSE
        /\ rret' = OK
        /\ out' = <<Head(queue)>>
        /\ queue' = Tail(queue)
    ]_vars

\* C8 witness: a read with a non-zero timeout returned success without
\* waiting and left further events queued.
C8_Witness ==
  /\ rpc = "idle"
  /\ rcalls > 0
  /\ rtimeout # 0
  /\ ~rblocked
  /\ rret = OK
  /\ Len(queue) >= 2
  /\ queue[1] # queue[2]

====
